---- MODULE Spec2Model ----
(***************************************************************************)
(* A model of the pikaminiapp client library: the Transport's envelope     *)
(* decoding (sync/http.py, aio/http.py), the error classifier              *)
(* (exceptions.py), the cursor pager of the assets and album resources     *)
(* (sync|aio/resources/assets.py, aio/resources/media.py), the media       *)
(* upload pipeline (aio/resources/media.py), the media payload models      *)
(* (models/media.py), the character blueprint upsert                       *)
(* (aio/resources/character.py), the client's close and scoped use         *)
(* (sync/client.py), the blocking and suspending pagers run side by side   *)
(* on the same answers, two generators of one resource, and the demo's     *)
(* client kept in the session state (utils/client.py, config.py).          *)
(*                                                                         *)
(* The caller runs one operation of the client at a time; `op` names it.   *)
(* The remote service is the environment: its answers are drawn from small *)
(* sets.                                                                   *)
(***************************************************************************)
EXTENDS Integers, Sequences, FiniteSets, TLC

VARIABLES
    op,         \* the client operation the caller is running: "idle", "post", "iter", "upload", ...
    response,   \* Transport: the HTTP exchange last handed to get/post
    outcome,    \* what the operation gave its caller: nothing yet, a value, or an exception
    coll,       \* service: the finite collection a listing pages through (newest first)
    tail,       \* service: how it fills `next` on the page that ends the collection
    it,         \* pager: the generator frame of iter / iter_album
    requests,   \* pager: the list requests sent so far, in order
    served,     \* pager: the pages the service has answered with, in order
    yielded,    \* pager: the items handed to the consumer so far, in order
    up,         \* upload: the frame of upload / upload_bytes / upload_to_album / ...
    calls,      \* upload: the remote calls issued so far, in order
    server,     \* upload: what the upload under way has left at the service and the object store
    ch,         \* character: the frame of upsert_blueprint_state
    cl,         \* client: the session of the Transport, and the `with` scope around it
    cmp,        \* two runs of a pager driven against the same answers, side by side
    session_state   \* demo wrapper: st.session_state and the clients init_client has made

vars == <<op, response, outcome, coll, tail, it, requests, served, yielded, up, calls, server,
          ch, cl, cmp, session_state>>

(***************************************************************************)
(* Bounds of the model.                                                    *)
(***************************************************************************)
MaxFill == 3        \* codes are <first char> 0..0 <3 chars>, with 2..MaxFill zeros
MaxColl == 5        \* the service's collection holds at most MaxColl items
MaxPageSize == 2    \* page_size / limit ranges over 1..MaxPageSize
MaxCloses == 3      \* close is called at most MaxCloses times on one client
MaxScript == 3      \* two pagers run side by side are given at most MaxScript answers
MaxInits == 3       \* init_client is called at most MaxInits times in one session

(***************************************************************************)
(* Python values.  None, dicts and the other JSON shapes are tagged so     *)
(* that dict.get, truthiness and isinstance can tell them apart.           *)
(***************************************************************************)
PyNone == [t |-> "None"]
PyDict(f) == [t |-> "dict", d |-> f]
PyList == [t |-> "list"]
PyBool(b) == [t |-> "bool", b |-> b]
PyStr(s) == [t |-> "str", s |-> s]
EmptyDict == PyDict(<<>>)

IsDict(v) == v.t = "dict"

\* dict.get(key, default)
Get(dict, key, default) == IF key \in DOMAIN dict.d THEN dict.d[key] ELSE default

\* Python truthiness of the values the model carries
Truthy(v) ==
    CASE v.t = "None" -> FALSE
      [] v.t = "bool" -> v.b
      [] v.t = "dict" -> DOMAIN v.d # {}
      [] v.t = "str"  -> v.s # <<>>
      [] OTHER        -> TRUE

(***************************************************************************)
(* exceptions.py                                                           *)
(***************************************************************************)
\* class -> its direct base class
Bases ==
    [ MiniAppError           |-> "Exception",
      MiniAppAPIError        |-> "MiniAppError",
      MiniAppAuthError       |-> "MiniAppAPIError",
      MiniAppForbiddenError  |-> "MiniAppAPIError",
      MiniAppNotFoundError   |-> "MiniAppAPIError",
      MiniAppConflictError   |-> "MiniAppAPIError",
      MiniAppValidationError |-> "MiniAppAPIError",
      AttributeError         |-> "Exception",
      FileNotFoundError      |-> "Exception",
      Exception              |-> "Exception" ]

RECURSIVE IsSubclass(_, _)
IsSubclass(cls, base) ==
    \/ cls = base
    \/ cls # "Exception" /\ IsSubclass(Bases[cls], base)

\* isinstance(exc, base): what `except base` catches
IsInstance(exc, base) == IsSubclass(exc.cls, base)

\* MiniAppAPIError.__init__ and its subclasses': code and message kept as given
APIError(cls, code, message) == [cls |-> cls, code |-> code, message |-> message]
\* MiniAppError(text) / a builtin exception: no code, no message attribute
PlainError(cls, text) == [cls |-> cls, text |-> text]

Digits == {"0", "1", "2", "3", "4", "9"}
Letters == {"A", "U", "N", "K", "O", "W", "s", "h", "r", "t"}
DigitValue(c) ==
    CASE c = "0" -> 0 [] c = "1" -> 1 [] c = "2" -> 2
      [] c = "3" -> 3 [] c = "4" -> 4 [] c = "9" -> 9

\* str.isalpha() of one character
IsAlpha(c) == c \in Letters

RECURSIVE LStrip(_)
LStrip(s) == IF s # <<>> /\ Head(s) = " " THEN LStrip(Tail(s)) ELSE s
RECURSIVE RStrip(_)
RStrip(s) == IF s # <<>> /\ s[Len(s)] = " " THEN RStrip(SubSeq(s, 1, Len(s) - 1)) ELSE s

\* the digit part of a Python integer literal: digits, single underscores between them
RECURSIVE DigitsOk(_, _)
DigitsOk(s, prevDigit) ==
    IF s = <<>> THEN prevDigit
    ELSE IF Head(s) \in Digits THEN DigitsOk(Tail(s), TRUE)
    ELSE IF Head(s) = "_" THEN prevDigit /\ DigitsOk(Tail(s), FALSE)
    ELSE FALSE

RECURSIVE DigitsValue(_, _)
DigitsValue(s, acc) ==
    IF s = <<>> THEN acc
    ELSE IF Head(s) = "_" THEN DigitsValue(Tail(s), acc)
    ELSE DigitsValue(Tail(s), 10 * acc + DigitValue(Head(s)))

\* int(s): surrounding whitespace stripped, an optional sign, then the digits;
\* anything else is a ValueError
ParseInt(s) ==
    LET body == RStrip(LStrip(s))
        signed == body # <<>> /\ Head(body) \in {"+", "-"}
        digs == IF signed THEN Tail(body) ELSE body
    IN  IF digs # <<>> /\ DigitsOk(digs, FALSE)
        THEN [ok |-> TRUE,
              v |-> IF signed /\ Head(body) = "-"
                    THEN 0 - DigitsValue(digs, 0) ELSE DigitsValue(digs, 0)]
        ELSE [ok |-> FALSE, v |-> 0]

\* code[-3:]
Last3(code) == SubSeq(code, IF Len(code) > 3 THEN Len(code) - 2 ELSE 1, Len(code))

MinCodeLen == 7

\* _extract_status with the length test one short (mutant)
ExtractStatusShort(code) ==
    IF Len(code) >= MinCodeLen - 1 /\ IsAlpha(code[1]) /\ ParseInt(Last3(code)).ok
    THEN [t |-> "int", v |-> ParseInt(Last3(code)).v]
    ELSE PyNone

\* _extract_status(code): int | None
ExtractStatus(code) ==
    IF Len(code) >= MinCodeLen /\ IsAlpha(code[1]) /\ ParseInt(Last3(code)).ok
    THEN [t |-> "int", v |-> ParseInt(Last3(code)).v]
    ELSE PyNone

UnknownCode == <<"U", "N", "K", "N", "O", "W", "N">>

\* MiniAppAPIError.from_error_dict(error)
FromErrorDict(error) ==
    LET code == Get(error, "code", UnknownCode)
        message == Get(error, "message", "Unknown error")
        status == ExtractStatus(code)
    IN  IF status = [t |-> "int", v |-> 401] THEN APIError("MiniAppAuthError", code, message)
        ELSE IF status = [t |-> "int", v |-> 403] THEN APIError("MiniAppForbiddenError", code, message)
        ELSE IF status = [t |-> "int", v |-> 404] THEN APIError("MiniAppNotFoundError", code, message)
        ELSE IF status = [t |-> "int", v |-> 409] THEN APIError("MiniAppConflictError", code, message)
        ELSE IF status = [t |-> "int", v |-> 422] THEN APIError("MiniAppValidationError", code, message)
        ELSE APIError("MiniAppAPIError", code, message)

(***************************************************************************)
(* sync/http.py, aio/http.py: the Transport                                *)
(***************************************************************************)
Return(value) == [kind |-> "return", value |-> value]
Raise(exc) == [kind |-> "raise", exc |-> exc]
NoOutcome == [kind |-> "none"]

\* what _handle_response raises for a body whose success is not truthy
RaiseForError(body) ==
    IF IsDict(Get(body, "error", EmptyDict))
    THEN Raise(FromErrorDict(Get(body, "error", EmptyDict)))
    ELSE Raise(PlainError("AttributeError", "get"))

\* _handle_response that hands back the envelope instead of its data (mutant)
HandleResponseWhole(resp) ==
    IF resp.body.t = "notjson" THEN Raise(PlainError("MiniAppError", "Invalid JSON response"))
    ELSE IF ~IsDict(resp.body) THEN Raise(PlainError("AttributeError", "get"))
    ELSE IF ~Truthy(Get(resp.body, "success", PyNone)) THEN RaiseForError(resp.body)
    ELSE Return(resp.body)

\* _handle_response that returns the error object of a failed envelope (mutant)
HandleResponseLenient(resp) ==
    IF resp.body.t = "notjson" THEN Raise(PlainError("MiniAppError", "Invalid JSON response"))
    ELSE IF ~IsDict(resp.body) THEN Raise(PlainError("AttributeError", "get"))
    ELSE IF ~Truthy(Get(resp.body, "success", PyNone))
         THEN Return(Get(resp.body, "error", EmptyDict))
    ELSE Return(Get(resp.body, "data", EmptyDict))

\* _handle_response that reports a failed envelope as a plain MiniAppError (mutant)
HandleResponseFlat(resp) ==
    IF resp.body.t = "notjson" THEN Raise(PlainError("MiniAppError", "Invalid JSON response"))
    ELSE IF ~IsDict(resp.body) THEN Raise(PlainError("AttributeError", "get"))
    ELSE IF ~Truthy(Get(resp.body, "success", PyNone))
         THEN Raise(PlainError("MiniAppError", "API error"))
    ELSE Return(Get(resp.body, "data", EmptyDict))

\* _handle_response that raises for a status of 400 and above before it reads the
\* body (mutant)
HandleResponseByStatus(resp) ==
    IF resp.status >= 400 THEN Raise(PlainError("MiniAppError", "HTTP error"))
    ELSE IF resp.body.t = "notjson"
    THEN Raise(PlainError("MiniAppError", "Invalid JSON response"))
    ELSE IF ~IsDict(resp.body) THEN Raise(PlainError("AttributeError", "get"))
    ELSE IF ~Truthy(Get(resp.body, "success", PyNone)) THEN RaiseForError(resp.body)
    ELSE Return(Get(resp.body, "data", EmptyDict))

\* _handle_response(response): response.json() fails on a body that is no JSON;
\* data.get is an AttributeError on a JSON value that is no object; a null error
\* object is an AttributeError inside from_error_dict
HandleResponse(resp) ==
    IF resp.body.t = "notjson" THEN Raise(PlainError("MiniAppError", "Invalid JSON response"))
    ELSE IF ~IsDict(resp.body) THEN Raise(PlainError("AttributeError", "get"))
    ELSE IF ~Truthy(Get(resp.body, "success", PyNone)) THEN RaiseForError(resp.body)
    ELSE Return(Get(resp.body, "data", EmptyDict))

\* get(path) / post(path, json): an httpx.HTTPError of the exchange becomes a
\* MiniAppError; everything _handle_response raises passes through
Post(resp) ==
    IF resp.net = "fail" THEN Raise(PlainError("MiniAppError", "HTTP error"))
    ELSE HandleResponse(resp)

(***************************************************************************)
(* The responses the service can give to a bare get/post.                  *)
(***************************************************************************)
SuffixChars == {"0", "1", "2", "3", "4", "9", "A", "+", " ", "_"}
Suffixes == {<<a, b, c>> : a \in SuffixChars, b \in SuffixChars, c \in SuffixChars}
Zeros(n) == [i \in 1..n |-> "0"]
ShortCode == <<"s", "h", "o", "r", "t">>
Codes ==
    {<<f>> \o Zeros(n) \o suf : f \in {"A", "4"}, n \in 2..MaxFill, suf \in Suffixes}
        \cup {ShortCode, UnknownCode}
NotFoundCode == <<"A", "0", "0", "0", "4", "0", "4">>
Messages == {"m", "boom"}

Payloads == {PyDict([media |-> "m1"]), PyDict([types |-> <<"outfit">>]), EmptyDict}

Field(key, values) == {key :> v : v \in values} \cup {<<>>}

ErrorObjects ==
    {PyDict(c @@ m) : c \in Field("code", {NotFoundCode, ShortCode}),
                      m \in Field("message", Messages)}

\* one error envelope per code: what the classifier is run on
CodeEnvelopes ==
    {PyDict([success |-> PyBool(FALSE), error |-> PyDict([code |-> c, message |-> "m"])]) :
        c \in Codes}

\* the envelope's shapes: each of success, data and error absent, null or set
ShapeEnvelopes ==
    {PyDict(s @@ d @@ e) :
        s \in Field("success", {PyBool(TRUE), PyBool(FALSE), PyNone}),
        d \in Field("data", Payloads \cup {PyNone}),
        e \in Field("error", ErrorObjects \cup {PyNone})}

Statuses == {200, 500}

Responses ==
    {[net |-> "ok", status |-> 200, body |-> b] : b \in CodeEnvelopes}
        \cup {[net |-> "ok", status |-> st, body |-> b] :
                st \in Statuses, b \in ShapeEnvelopes \cup {[t |-> "notjson"], PyList}}
        \cup {[net |-> "fail"]}

NoResponse == [net |-> "none"]

(***************************************************************************)
(* models/media.py: MediaAsset and its payloads                            *)
(***************************************************************************)
Kinds == {"image", "video", "audio"}

\* the payload objects the service sends for a media asset of a kind whose file is
\* at `url`: for a video with or without the imageUrl of a thumbnail
MediaPayloads(kind, url) ==
    CASE kind = "image" -> {PyDict([imageUrl |-> url])}
      [] kind = "video" -> {PyDict([videoUrl |-> url]),
                            PyDict([videoUrl |-> url, imageUrl |-> <<"thumb", url>>])}
      [] kind = "audio" -> {PyDict([audioUrl |-> url])}

\* the payload class taken to be the first member of the union
\* ImagePayload | VideoPayload | AudioPayload that the object validates as (mutant)
PayloadClassFirstFit(kind, payload_data) ==
    IF "imageUrl" \in DOMAIN payload_data.d THEN "ImagePayload"
    ELSE IF "videoUrl" \in DOMAIN payload_data.d THEN "VideoPayload"
    ELSE "AudioPayload"

\* MediaAsset.__init__: the payload class is chosen by kind
PayloadClass(kind, payload_data) ==
    CASE kind = "image" -> "ImagePayload"
      [] kind = "video" -> "VideoPayload"
      [] kind = "audio" -> "AudioPayload"

\* ImagePayload / VideoPayload / AudioPayload .model_validate(payload_data)
ValidatePayload(cls, payload_data) ==
    CASE cls = "ImagePayload" ->
            [cls |-> cls, image_url |-> payload_data.d["imageUrl"]]
      [] cls = "VideoPayload" ->
            [cls |-> cls, video_url |-> payload_data.d["videoUrl"],
             image_url |-> Get(payload_data, "imageUrl", PyNone)]
      [] cls = "AudioPayload" ->
            [cls |-> cls, audio_url |-> payload_data.d["audioUrl"]]

\* MediaAsset.model_validate(media), which runs MediaAsset.__init__
ValidateMedia(media) ==
    [cls |-> "MediaAsset", media_id |-> media.d["mediaId"], kind |-> media.d["kind"],
     payload |-> ValidatePayload(PayloadClass(media.d["kind"], media.d["payload"]),
                                 media.d["payload"])]

(***************************************************************************)
(* The service behind the two listings: a finite collection, newest first, *)
(* paged by an opaque cursor that encodes the position reached.            *)
(***************************************************************************)
ItemIds == {"a", "b"}
Collections == UNION {[1..n -> ItemIds] : n \in 0..MaxColl}
\* `next` on the page that ends the collection
Tails == {"flag", "stale", "empty", "absent", "null"}

Min(a, b) == IF a < b THEN a ELSE b

TailNext(t, pos) ==
    CASE t = "flag"   -> "next" :> PyDict([cursor |-> PyNone, hasMore |-> PyBool(FALSE)])
      [] t = "stale"  -> "next" :> PyDict([cursor |-> PyStr(pos), hasMore |-> PyBool(FALSE)])
      [] t = "empty"  -> "next" :> EmptyDict
      [] t = "null"   -> "next" :> PyNone
      [] t = "absent" -> <<>>

\* the media asset behind an item: an image, or a video with a thumbnail
WireMedia(id) ==
    LET kind == IF id = "a" THEN "image" ELSE "video"
    IN  PyDict([mediaId |-> id, kind |-> kind,
                payload |-> CHOOSE p \in MediaPayloads(kind, <<"cdn", id>>) :
                                kind = "video" => "imageUrl" \in DOMAIN p.d])

\* the wire form of the item at position i of the collection
WireItem(res, c, i) ==
    IF res = "assets"
    THEN [id |-> c[i], media |-> WireMedia(c[i]), objectName |-> "o", name |-> "n",
          type |-> "Outfit"]
    ELSE [createdAt |-> i, media |-> WireMedia(c[i])]

\* the cursor of a list request: top-level for assets, under seek for the album
RequestCursor(req) ==
    LET holder == IF req.path = "/miniapp/assets/list" THEN req.json ELSE req.json.d["seek"]
    IN  Get(holder, "cursor", PyNone)
RequestLimit(req) ==
    IF req.path = "/miniapp/assets/list" THEN req.json.d["limit"]
    ELSE req.json.d["seek"].d["limit"]

\* the payload the service answers a list request with
ListData(res, c, t, req) ==
    LET cur == RequestCursor(req)
        pos == IF cur = PyNone THEN 0 ELSE cur.s
        upto == Min(pos + RequestLimit(req), Len(c))
        items == [i \in 1..(upto - pos) |-> WireItem(res, c, pos + i)]
        next == IF upto < Len(c)
                THEN "next" :> PyDict([cursor |-> PyStr(upto), hasMore |-> PyBool(TRUE)])
                ELSE TailNext(t, upto)
    IN  PyDict(("items" :> items) @@ next
               @@ (IF res = "assets" THEN "total" :> Len(items) ELSE <<>>))

OkResponse(data) ==
    [net |-> "ok", status |-> 200, body |-> PyDict([success |-> PyBool(TRUE), data |-> data])]

\* the ways a call can fail: no exchange at all, or an error envelope
Failures ==
    {[net |-> "fail"],
     [net |-> "ok", status |-> 500,
      body |-> PyDict([success |-> PyBool(FALSE),
                       error |-> PyDict([code |-> NotFoundCode, message |-> "m"])])]}

(***************************************************************************)
(* sync|aio/resources/assets.py and aio/resources/media.py: list, iter     *)
(***************************************************************************)
PageSizes == 1..MaxPageSize
Resources == {"assets", "album"}
TypeArgs == {PyNone, PyStr("Outfit")}
CharacterId == "char-1"

\* the request list / list_album sends
ListRequest(res, limit, cursor, type) ==
    IF res = "assets"
    THEN [path |-> "/miniapp/assets/list",
          json |-> PyDict(("limit" :> limit)
                          @@ (IF cursor # PyNone THEN "cursor" :> cursor ELSE <<>>)
                          @@ (IF type # PyNone THEN "type" :> type ELSE <<>>))]
    ELSE [path |-> "/miniapp/media/album/list",
          json |-> PyDict([characterId |-> CharacterId,
                           seek |-> PyDict(("limit" :> limit)
                                           @@ (IF cursor # PyNone THEN "cursor" :> cursor
                                               ELSE <<>>))])]

\* CreationAsset.model_validate(item) / AlbumItem.model_validate(item)
ValidateItem(res, item) ==
    IF res = "assets"
    THEN [cls |-> "CreationAsset", id |-> item.id, media |-> ValidateMedia(item.media),
          object_name |-> item.objectName, name |-> item.name, type |-> item.type]
    ELSE [cls |-> "AlbumItem", media |-> ValidateMedia(item.media),
          created_at |-> item.createdAt]

ValidateItems(res, items) == [i \in 1..Len(items) |-> ValidateItem(res, items[i])]

\* the rest of list / list_album once post has returned data: the page, or the
\* AttributeError of next_info.get on a null `next` (list_album has no `or {}`)
PageOf(res, data) ==
    LET items == ValidateItems(res, Get(data, "items", <<>>))
        got == IF res = "assets"
               THEN (IF Truthy(Get(data, "next", PyNone))
                     THEN Get(data, "next", PyNone) ELSE EmptyDict)
               ELSE Get(data, "next", EmptyDict)
    IN  IF ~IsDict(got) THEN Raise(PlainError("AttributeError", "get"))
        ELSE Return([items |-> items,
                     cursor |-> Get(got, "cursor", PyNone),
                     has_more |-> Get(got, "hasMore", PyBool(FALSE)).b]
                    @@ (IF res = "assets" THEN "total" :> Get(data, "total", 0) ELSE <<>>))

\* list(limit, cursor, type) / list_album(character_id, limit, cursor), given the
\* response to its request
ListOutcome(res, resp) ==
    IF Post(resp).kind = "raise" THEN Post(resp) ELSE PageOf(res, Post(resp).value)

NoPage == [items |-> <<>>, cursor |-> PyNone, has_more |-> FALSE]
NoIter == [pc |-> "none"]
NoUpload == [pc |-> "none"]
NoServer == [presigned |-> {}, objects |-> {}, media |-> <<>>, album |-> <<>>]
NoUpsert == [pc |-> "none"]
NoRuns == [pc |-> "none"]
\* MiniAppClient(api_key, base_url): the session is open, nothing of it released,
\* no scope entered
NewClient == [http |-> "open", released |-> 0, closes |-> 0, scope |-> "none",
              pending |-> PyNone]

\* the cursor the generator carries to its next list call, with the page's cursor dropped (mutant)
NextCursorNone(page) == PyNone
\* cursor = page.cursor
NextCursor(page) == page.cursor

\* the items of a page handed on by `yield from page.items`, duplicates dropped (mutant)
ItemAtDedup(page, i) == IF \E j \in 1..(i - 1) : page.items[j] = page.items[i]
                     THEN <<>> ELSE <<page.items[i]>>
\* the i-th item of the page, as `yield from page.items` / `for item in page.items` yields it
ItemAt(page, i) == <<page.items[i]>>

\* the generator's exit test never taken (mutant)
StopsAtNever(page) == FALSE
\* the generator stopping only at an empty last page (mutant)
StopsAtEmpty(page) == ~page.has_more /\ page.items = <<>>
\* `if not page.has_more: break`
StopsAt(page) == ~page.has_more

(***************************************************************************)
(* A pager run from its first call to its end against a given sequence of  *)
(* answers: iter and get_all of the blocking and of the suspending assets  *)
(* resource, and iter_album.                                               *)
(***************************************************************************)
\* the suspending generator yielding the items of a page last to first (mutant)
ForYieldReversed(items) ==
    [i \in 1..Len(items) |-> items[Len(items) + 1 - i]]

RECURSIVE ForYield(_)
\* aio: `for item in page.items: yield item`
ForYield(items) ==
    IF items = <<>> THEN <<>> ELSE <<Head(items)>> \o ForYield(Tail(items))

\* sync: `yield from page.items`
YieldFrom(items) == items

\* what the generator of a mode yields for the items of a page
YieldsOf(mode, items) == IF mode = "sync" THEN YieldFrom(items) ELSE ForYield(items)

\* page_size: int = 50, the page size get_all iterates with
DefaultPageSize == 50

\* the answers a run is given: pages with 0 or 2 items and every shape of `next`, a
\* failed exchange, an error envelope
ItemCounts == {0, 2}
NextShapes == Tails \cup {"more", "loose"}
ScriptPages == {[n |-> n, next |-> nx] : n \in ItemCounts, nx \in NextShapes}
ScriptItems == <<"a", "b">>
\* `next` of the k-th answer: "more" says hasMore with a cursor, "loose" says hasMore
\* without one, the others end the collection
ScriptNext(shape, k) ==
    CASE shape = "more"  -> "next" :> PyDict([cursor |-> PyStr(k), hasMore |-> PyBool(TRUE)])
      [] shape = "loose" -> "next" :> PyDict([hasMore |-> PyBool(TRUE)])
      [] OTHER           -> TailNext(shape, k)
\* the k-th answer as the response to a list request of the resource
ScriptResponse(res, entry, k) ==
    IF "net" \in DOMAIN entry THEN entry
    ELSE OkResponse(PyDict(("items" :> [i \in 1..entry.n |-> WireItem(res, ScriptItems, i)])
                           @@ ScriptNext(entry.next, k)
                           @@ (IF res = "assets" THEN "total" :> entry.n ELSE <<>>)))
\* the sequences of answers: pages that say hasMore, then an answer that ends the
\* traversal; or MaxScript pages that all say hasMore
Continuing == {e \in ScriptPages : e.next \in {"more", "loose"}}
Ending == (ScriptPages \ Continuing) \cup Failures
Scripts ==
    UNION {{p \o <<e>> : p \in [1..n -> Continuing], e \in Ending} : n \in 0..(MaxScript - 1)}
        \cup [1..MaxScript -> Continuing]

\* a run that has sent nothing yet
NewRun == [cursor |-> PyNone, requests |-> <<>>, pages |-> <<>>, yielded |-> <<>>,
           outcome |-> NoOutcome]

RECURSIVE RunIter(_, _, _, _, _, _)
\* iter(page_size, type) / iter_album(character_id, page_size) consumed to its end:
\* cursor = None; while True: page = list(...); yield the items; break unless
\* page.has_more; cursor = page.cursor.  The run is left without an outcome when
\* the answers run out first.
RunIter(res, mode, page_size, type, script, run) ==
    IF script = <<>> THEN run
    ELSE LET req == ListRequest(res, page_size, run.cursor, type)
             got == ListOutcome(res, ScriptResponse(res, Head(script), Len(run.requests) + 1))
             sent == [run EXCEPT !.requests = Append(@, req)]
         IN  IF got.kind = "raise" THEN [sent EXCEPT !.outcome = got]
             ELSE LET fed == [sent EXCEPT !.pages = Append(@, got.value),
                                          !.yielded = @ \o YieldsOf(mode, got.value.items)]
                  IN  IF StopsAt(got.value) THEN [fed EXCEPT !.outcome = Return(PyNone)]
                      ELSE RunIter(res, mode, page_size, type, Tail(script),
                                   [fed EXCEPT !.cursor = NextCursor(got.value)])

RECURSIVE AppendEach(_, _)
\* aio get_all: items = []; async for item in self.iter(type=type): items.append(item)
AppendEach(items, rest) ==
    IF rest = <<>> THEN items ELSE AppendEach(Append(items, Head(rest)), Tail(rest))

\* get_all handing back what was yielded before the generator raised (mutant)
GetAllPartial(mode, run) ==
    IF run.outcome.kind = "none" THEN NoOutcome ELSE Return(run.yielded)

\* get_all(type) / get_all_album_items(character_id), given the run of its iter: the
\* list of what was yielded, or the exception that left the generator
GetAll(mode, run) ==
    IF run.outcome.kind = "raise" THEN run.outcome
    ELSE IF run.outcome.kind = "none" THEN NoOutcome
    ELSE Return(IF mode = "sync" THEN run.yielded ELSE AppendEach(<<>>, run.yielded))

\* types(): data.get("types", [])
TypesOutcome(resp) ==
    IF Post(resp).kind = "raise" THEN Post(resp)
    ELSE Return(Get(Post(resp).value, "types", <<>>))
\* the answers to the types request
TypesResponses ==
    {OkResponse(PyDict([types |-> <<"Outfit", "Style">>])), OkResponse(EmptyDict)}
        \cup Failures

\* the `total` of an answer to the assets list request: the number of items of the
\* page, or no such field
TotalShapes == {"count", "absent"}
\* a single answer to the assets list request
ListPayload(n, shape, total) ==
    PyDict(("items" :> [i \in 1..n |-> WireItem("assets", ScriptItems, i)])
           @@ ScriptNext(shape, n)
           @@ (IF total = "count" THEN "total" :> n ELSE <<>>))

(***************************************************************************)
(* Two generators of one resource, each advanced by its consumer's next(). *)
(***************************************************************************)
\* the collections two traversals go through together: none, one, two distinct,
\* two equal and three items
TwinCollections ==
    {<<>>, <<"a">>, <<"a", "b">>, <<"b", "b">>, <<"a", "b", "a">>}

\* iter(page_size) / iter_album(character_id, page_size) called: a generator whose
\* body has not run
NewGen(page_size) ==
    [pc |-> "new", page_size |-> page_size, cursor |-> PyNone, page |-> NoPage, idx |-> 0,
     requests |-> <<>>, yielded |-> <<>>, asks |-> 0, outcome |-> NoOutcome]

\* the generator has returned or raised: next() on it gives StopIteration
Finished(g) == g.pc \in {"exhausted", "raised"}

\* the cursor a generator's first list call is made with, were the generators of a
\* resource to keep their place in one slot of the resource (mutant)
FirstCursorShared(gens, i) ==
    IF \E j \in 1..Len(gens) : j # i /\ gens[j].cursor # PyNone
    THEN (gens[CHOOSE j \in 1..Len(gens) : j # i /\ gens[j].cursor # PyNone]).cursor
    ELSE PyNone
\* `cursor: str | None = None`, a local of the generator's own frame
FirstCursor(gens, i) == PyNone

RECURSIVE GenRun(_, _, _, _)
\* the body of the generator from where it stands to its next yield, its return or
\* its exception: while True: page = list(...); yield each item; break unless
\* page.has_more; cursor = page.cursor
GenRun(res, g, c, t) ==
    IF g.pc = "yield" /\ g.idx < Len(g.page.items)
    THEN [g EXCEPT !.idx = @ + 1, !.yielded = @ \o ItemAt(g.page, g.idx + 1)]
    ELSE IF g.pc = "yield" /\ StopsAt(g.page)
    THEN [g EXCEPT !.pc = "exhausted", !.outcome = Return(PyNone)]
    ELSE LET cursor == IF g.pc = "yield" THEN NextCursor(g.page) ELSE g.cursor
             req == ListRequest(res, g.page_size, cursor, PyNone)
             got == ListOutcome(res, OkResponse(ListData(res, c, t, req)))
             sent == [g EXCEPT !.cursor = cursor, !.requests = Append(@, req)]
         IN  IF got.kind = "raise" THEN [sent EXCEPT !.pc = "raised", !.outcome = got]
             ELSE GenRun(res, [sent EXCEPT !.pc = "yield", !.page = got.value, !.idx = 0],
                         c, t)

\* next() on a generator that, suspended after the last item of a page that has
\* more, already sends the request for the page after it (mutant)
GenNextAhead(res, gens, i, c, t) ==
    LET g == [gens[i] EXCEPT !.asks = @ + 1]
        ran == IF Finished(g) THEN g
               ELSE IF g.pc = "new" THEN GenRun(res, [g EXCEPT !.pc = "list"], c, t)
               ELSE GenRun(res, g, c, t)
    IN  IF ran.pc = "yield" /\ ran.idx = Len(ran.page.items) /\ ~StopsAt(ran.page)
        THEN [ran EXCEPT !.requests =
                Append(@, ListRequest(res, ran.page_size, NextCursor(ran.page), PyNone))]
        ELSE ran

\* next(gens[i]) / await anext(gens[i]): a finished generator does nothing, a new
\* one starts its body, a suspended one resumes after its yield
GenNext(res, gens, i, c, t) ==
    LET g == [gens[i] EXCEPT !.asks = @ + 1]
    IN  IF Finished(g) THEN g
        ELSE IF g.pc = "new"
        THEN GenRun(res, [g EXCEPT !.pc = "list", !.cursor = FirstCursor(gens, i)], c, t)
        ELSE GenRun(res, g, c, t)

(***************************************************************************)
(* aio/resources/media.py: create, add_to_album, the upload pipeline       *)
(***************************************************************************)
Variants == {"upload", "upload_bytes", "upload_to_album", "upload_bytes_to_album"}
ToAlbum(variant) == variant \in {"upload_to_album", "upload_bytes_to_album"}
FromPath(variant) == variant \in {"upload", "upload_to_album"}
\* file names, as strings of characters
Filenames == {<<"a", ".", "p", "n", "g">>, <<"b", "l", "o", "b">>}
\* content_type: str | None
ContentTypeArgs == {PyNone, PyStr("image/jpeg"), PyStr("")}
SourceArgs == {PyNone, PyStr("my_tool")}
\* uuid.uuid4().hex: 32 hex digits, the 13th the version digit; two of the three
\* start with the same 12 digits
UuidHex(head, rest) ==
    [i \in 1..32 |-> IF i <= 12 THEN head ELSE IF i = 13 THEN "4" ELSE rest]
Uuids == {UuidHex("0", "a"), UuidHex("0", "b"), UuidHex("f", "a")}
TokenLen == 12
MediaIds == {"m1", "m2"}
AlbumIds == {"al1", "al2"}
Content == "bytes"

\* mimetypes.guess_type(filename)[0]
EndsWith(str, suffix) ==
    /\ Len(str) >= Len(suffix)
    /\ SubSeq(str, Len(str) - Len(suffix) + 1, Len(str)) = suffix
GuessType(filename) ==
    IF EndsWith(filename, <<".", "p", "n", "g">>) THEN PyStr("image/png") ELSE PyNone

\* the content type of the PUT with the guess from the file name put first (mutant)
ResolveContentTypeGuessFirst(content_type, filename) ==
    IF GuessType(filename) # PyNone THEN GuessType(filename)
    ELSE IF content_type # PyNone THEN content_type
    ELSE PyStr("application/octet-stream")

\* upload_bytes: the content type of the PUT
ResolveContentType(content_type, filename) ==
    IF content_type # PyNone THEN content_type
    ELSE IF GuessType(filename) # PyNone THEN GuessType(filename)
    ELSE PyStr("application/octet-stream")

\* a unique filename with the random digits after the name (mutant)
MakeUniqueFilenameAfter(uuid_hex, filename) ==
    filename \o <<"_">> \o SubSeq(uuid_hex, 1, TokenLen)

\* _make_unique_filename(filename): f"{unique_id}_{filename}" with
\* unique_id = uuid.uuid4().hex[:12], `uuid_hex` being uuid.uuid4().hex
MakeUniqueFilename(uuid_hex, filename) ==
    SubSeq(uuid_hex, 1, TokenLen) \o <<"_">> \o filename

\* the request of _get_presigned_upload(file_type, filename)
PresignRequest(file_type, filename) ==
    [call |-> "presign", path |-> "/miniapp/files/presign/upload",
     json |-> PyDict([fileType |-> file_type, filename |-> filename])]
\* PresignedUpload.model_validate(data)
ValidatePresign(data) ==
    [presigned_url |-> data.d["presignedUrl"], file_url |-> data.d["fileUrl"]]

\* the headers of the session self._client: every get/post carries them
SessionHeaders == [Authorization |-> <<"ApiKey", "ma_key">>]

\* the request of put_file(url, content, content_type): httpx.put / a client made
\* for this one request, with the Content-Type header only
PutRequest(url, content, content_type) ==
    [call |-> "put", url |-> url, content |-> content,
     headers |-> [ContentType |-> content_type]]

\* the headers a request goes out with: a request for a path goes through the
\* session, the PUT to an absolute URL goes with its own headers
SentHeaders(req) == IF "path" \in DOMAIN req THEN SessionHeaders ELSE req.headers

\* put_file whose status check lets everything below 400 pass (mutant)
PutFileLenient(resp) ==
    IF resp.net = "fail" \/ resp.status >= 400
    THEN Raise(PlainError("MiniAppError", "Upload failed"))
    ELSE Return(PyNone)

\* put_file: raise_for_status (any status outside 2xx) and any httpx.HTTPError become
\* a MiniAppError; the body of the response is not read
PutFile(resp) ==
    IF resp.net = "fail" \/ resp.status \notin 200..299
    THEN Raise(PlainError("MiniAppError", "Upload failed"))
    ELSE Return(PyNone)

\* the request of create(url, kind, source=source)
CreateRequest(url, kind, source) ==
    [call |-> "create", path |-> "/miniapp/media/create",
     json |-> PyDict([url |-> url, kind |-> kind]
                     @@ (IF source # PyNone THEN "source" :> source ELSE <<>>))]

\* the request of add_to_album(character_id, media_id, captured=captured)
AddToAlbumRequest(character_id, media_id, captured) ==
    [call |-> "addToAlbum", path |-> "/miniapp/media/album/add",
     json |-> PyDict([characterId |-> character_id, mediaId |-> media_id,
                      captured |-> PyBool(captured)])]
\* AlbumEntry.model_validate(data)
ValidateEntry(data) == [album_id |-> data.d["albumId"]]

\* an UploadResult carrying the URL the bytes were PUT to (mutant)
UploadResultPut(presign, media) ==
    [media_id |-> media.media_id, url |-> presign.presigned_url, media |-> media,
     album_id |-> PyNone]

\* UploadResult(media_id=media.media_id, url=presign.file_url, media=media)
UploadResult(presign, media) ==
    [media_id |-> media.media_id, url |-> presign.file_url, media |-> media,
     album_id |-> PyNone]

\* upload_to_album's last lines with the album id left unset (mutant)
WithAlbumIdUnset(result, entry) == result
\* result.album_id = entry.album_id
WithAlbumId(result, entry) == [result EXCEPT !.album_id = PyStr(entry.album_id)]

\* upload_to_album / upload_bytes_to_album go on to add_to_album; upload / upload_bytes return
Attaches(variant) == ToAlbum(variant)

\* what the service answers the three POSTs of the pipeline with
PresignData(filename) ==
    PyDict([presignedUrl |-> <<"put", filename>>, fileUrl |-> <<"cdn", filename>>])
CreateData(mid, kind, payload) ==
    PyDict([media |-> PyDict([mediaId |-> mid, kind |-> kind, payload |-> payload])])
AddData(aid) == PyDict([albumId |-> aid])

\* what the object store answers the PUT with: a status and a body nobody decodes
PutStatuses == {200, 204, 301, 403, 500}
PutBodies == {"", "{\"success\": false}"}
PutResponses ==
    {[net |-> "ok", status |-> st, body |-> b] : st \in PutStatuses, b \in PutBodies}
        \cup {[net |-> "fail"]}

(***************************************************************************)
(* aio/resources/character.py, models/character.py: upsert_blueprint_state *)
(***************************************************************************)
\* CharacterBlueprintState: field -> alias, for three of its sections (one aliased
\* dict, one plain dict, the aliased int)
StateFields ==
    [core_personality |-> "corePersonality", goal |-> "goal",
     backstory_updated_at |-> "backstoryUpdatedAt"]
Aliases == {StateFields[f] : f \in DOMAIN StateFields}
FieldOf(alias) == CHOOSE f \in DOMAIN StateFields : StateFields[f] = alias

\* CharacterBlueprintState(**given): the fields passed are the fields set, every
\* other field takes its default None
BlueprintModel(given) ==
    [t |-> "model", fields_set |-> DOMAIN given,
     values |-> [f \in DOMAIN StateFields |-> IF f \in DOMAIN given THEN given[f] ELSE PyNone]]

\* blueprint.model_dump(by_alias=True, exclude_none=True)
ModelDump(m) ==
    [a \in {StateFields[f] : f \in {g \in DOMAIN StateFields : m.values[g] # PyNone}} |->
        m.values[FieldOf(a)]]

\* the request with the blueprint's own keys unpacked last (mutant)
UpsertRequestDictLast(character_id, blueprint) ==
    LET blueprint_dict == IF blueprint.t = "model" THEN ModelDump(blueprint) ELSE blueprint.d
    IN  [path |-> "/miniapp/character/blueprint/state",
         json |-> PyDict(blueprint_dict @@ ("characterId" :> PyStr(character_id)))]

\* the caller's blueprint once upsert_blueprint_state has built its payload:
\* model_dump and {**blueprint_dict, ...} make new dicts, nothing is assigned into
\* the argument
BlueprintAfter(character_id, blueprint) == blueprint

\* the request of upsert_blueprint_state(character_id, blueprint):
\* payload = {**blueprint_dict, "characterId": character_id}
UpsertRequest(character_id, blueprint) ==
    LET blueprint_dict == IF blueprint.t = "model" THEN ModelDump(blueprint) ELSE blueprint.d
    IN  [path |-> "/miniapp/character/blueprint/state",
         json |-> PyDict(("characterId" :> PyStr(character_id)) @@ blueprint_dict)]

\* CharacterItem.model_validate(data["character"])
ValidateCharacter(character) ==
    [cls |-> "CharacterItem", id |-> character.d["id"],
     blueprint |-> [f \in DOMAIN StateFields |->
                        Get(character.d["blueprint"], StateFields[f], PyNone)]]

\* the partial states a caller passes: each section left out, set to None, or given
SectionValue(alias) ==
    IF alias = "backstoryUpdatedAt" THEN [t |-> "int", v |-> 7] ELSE PyDict([v |-> alias])
Partials(keys) == UNION {[S -> {"null", "value"}] : S \in SUBSET keys}
ModelArgs ==
    {BlueprintModel([f \in DOMAIN c |->
                        IF c[f] = "null" THEN PyNone ELSE SectionValue(StateFields[f])]) :
        c \in Partials(DOMAIN StateFields)}
DictArgs ==
    {PyDict([k \in DOMAIN c |->
                IF c[k] = "null" THEN PyNone
                ELSE IF k = "characterId" THEN PyStr("char-2") ELSE SectionValue(k)]) :
        c \in Partials(Aliases \cup {"characterId"})}

\* the service's side of the upsert: what it holds for the character, and the
\* shallow merge of a request body into it (a null value deletes the section)
StoredState ==
    [corePersonality |-> PyDict([v |-> "stored"]), goal |-> PyDict([v |-> "stored"])]
ServiceUpsert(stored, body) ==
    LET sent == DOMAIN body \ {"characterId"}
        deleted == {k \in sent : body[k] = PyNone}
    IN  [k \in (DOMAIN stored \cup sent) \ deleted |->
            IF k \in sent THEN body[k] ELSE stored[k]]
CharacterData(id, state) ==
    PyDict([character |-> PyDict([id |-> id, blueprint |-> PyDict(state)])])

(***************************************************************************)
(* sync|aio/client.py, sync|aio/http.py: close and the `with` scope        *)
(***************************************************************************)
\* a session close that releases the connection on every call (mutant)
CloseSessionAgain(c) == [c EXCEPT !.http = "closed", !.released = @ + 1, !.closes = @ + 1]

\* client.close() -> self._http.close() -> self._client.close() / aclose(): the
\* session releases its connections when it is open and is closed from then on; on
\* a closed session the call does nothing
CloseSession(c) ==
    IF c.http = "open"
    THEN [c EXCEPT !.http = "closed", !.released = @ + 1, !.closes = @ + 1]
    ELSE [c EXCEPT !.closes = @ + 1]

\* an __exit__ that reports the exception as handled (mutant)
ExitSwallows(pending) == Return(PyNone)

\* __exit__(*args) returns None: an exception of the body goes on to the caller
ExitOutcome(pending) == IF pending = PyNone THEN Return(PyNone) ELSE Raise(pending)

\* what the body of a `with` block may raise
BodyErrors ==
    {PlainError("MiniAppError", "HTTP error"),
     APIError("MiniAppNotFoundError", NotFoundCode, "m"),
     PlainError("AttributeError", "get")}

(***************************************************************************)
(* utils/client.py, config.py: the demo's client kept in the session state *)
(***************************************************************************)
\* the base_url the form hands to init_client, and what PIKA_BASE_URL is set to
BaseUrls == {"", "https://api"}
EnvUrls == {PyNone, PyStr("https://env")}

\* a session in which init_client has not run: no "client" key, no client made
NewSession == [has_client |-> FALSE, client |-> 0, made |-> <<>>, inits |-> 0,
               result |-> PyNone]

\* get_base_url(override): override or os.getenv(ENV_BASE_URL), MiniAppError if
\* neither is set
GetBaseUrl(override, env) ==
    IF override # "" THEN Return(override)
    ELSE IF env # PyNone /\ env.s # "" THEN Return(env.s)
    ELSE Raise(PlainError("MiniAppError", "No base URL configured"))

\* get_client(): the client of the session, None without the key
GetClient(session) ==
    IF ~session.has_client THEN PyNone ELSE [t |-> "client", id |-> session.client]

\* is_connected()
IsConnected(session) == GetClient(session) # PyNone

\* the first half of init_client: close the session's client if there is one
CloseExisting(session) ==
    IF session.has_client
    THEN [session EXCEPT !.made[session.client] = "closed"]
    ELSE session

\* init_client(base_url, api_key): close the client there is, then make a new one
\* and store it; a constructor that raises leaves the session's keys as they were
InitClient(session, base_url, env) ==
    LET closed == [CloseExisting(session) EXCEPT !.inits = @ + 1]
        url == GetBaseUrl(base_url, env)
    IN  IF url.kind = "raise"
        THEN [closed EXCEPT !.result = [success |-> FALSE, message |-> "Connection failed"]]
        ELSE [closed EXCEPT !.made = Append(@, "open"),
                            !.client = Len(closed.made) + 1,
                            !.has_client = TRUE,
                            !.result = [success |-> TRUE,
                                        message |-> "Connected successfully"]]

(***************************************************************************)
(* Actions                                                                 *)
(***************************************************************************)
PagerIdle == /\ coll = <<>> /\ tail = "flag" /\ it = NoIter
             /\ requests = <<>> /\ served = <<>> /\ yielded = <<>>
UploadIdle == up = NoUpload /\ calls = <<>> /\ server = NoServer
\* starting an operation leaves nothing of the one before it
PagerReset == /\ coll' = <<>> /\ tail' = "flag" /\ it' = NoIter
              /\ requests' = <<>> /\ served' = <<>> /\ yielded' = <<>>
UploadReset == up' = NoUpload /\ calls' = <<>> /\ server' = NoServer

Init ==
    /\ op = "idle"
    /\ response = NoResponse
    /\ outcome = NoOutcome
    /\ PagerIdle
    /\ UploadIdle
    /\ ch = NoUpsert
    /\ cl = NewClient
    /\ cmp = NoRuns
    /\ session_state = NewSession

\* the caller has not started its operation yet
Quiescent == op = "idle"

\* client._http.get(path) / post(path, json) answered by `resp`
HttpCall ==
    /\ Quiescent
    /\ \E resp \in Responses :
        /\ response' = resp
        /\ outcome' = Post(resp)
    /\ op' = "post"
    /\ PagerReset /\ UploadReset
    /\ UNCHANGED <<ch, cl, cmp, session_state>>

\* assets.iter(page_size, type) / media.iter_album(character_id, page_size) is
\* called: a generator is made, nothing runs yet
IterStart ==
    /\ Quiescent
    /\ \E res \in Resources, ps \in PageSizes, ty \in TypeArgs, c \in Collections, t \in Tails :
        /\ res = "album" => ty = PyNone
        /\ it' = [pc |-> "list", res |-> res, page_size |-> ps, type |-> ty,
                  cursor |-> PyNone, page |-> NoPage, idx |-> 0]
        /\ coll' = c
        /\ tail' = t
    /\ op' = "iter"
    /\ response' = NoResponse
    /\ outcome' = NoOutcome
    /\ requests' = <<>> /\ served' = <<>> /\ yielded' = <<>>
    /\ UploadReset
    /\ UNCHANGED <<ch, cl, cmp, session_state>>

\* the generator's `page = self.list(limit=page_size, cursor=cursor, type=type)`,
\* answered by the service with the page at the cursor
IterList ==
    /\ op = "iter" /\ it.pc = "list"
    /\ \E req \in {ListRequest(it.res, it.page_size, it.cursor, it.type)} :
       \E resp \in {OkResponse(ListData(it.res, coll, tail, req))} :
       \E got \in {ListOutcome(it.res, resp)} :
        /\ requests' = Append(requests, req)
        /\ response' = resp
        /\ served' = Append(served, resp.body.d["data"])
        /\ IF got.kind = "raise"
           THEN it' = [it EXCEPT !.pc = "raised"] /\ outcome' = got
           ELSE it' = [it EXCEPT !.pc = "yield", !.page = got.value, !.idx = 0]
                /\ outcome' = outcome
    /\ UNCHANGED <<op, coll, tail, yielded, up, calls, server, ch, cl, cmp, session_state>>

\* the same list call when the exchange fails: the exception leaves the generator
IterListFails ==
    /\ op = "iter" /\ it.pc = "list"
    /\ \E resp \in Failures :
        /\ requests' = Append(requests,
                              ListRequest(it.res, it.page_size, it.cursor, it.type))
        /\ response' = resp
        /\ outcome' = ListOutcome(it.res, resp)
        /\ it' = [it EXCEPT !.pc = "raised"]
    /\ UNCHANGED <<op, coll, tail, served, yielded, up, calls, server, ch, cl, cmp, session_state>>

\* `yield from page.items`: the next item of the page goes to the consumer
IterYield ==
    /\ op = "iter" /\ it.pc = "yield" /\ it.idx < Len(it.page.items)
    /\ yielded' = yielded \o ItemAt(it.page, it.idx + 1)
    /\ it' = [it EXCEPT !.idx = @ + 1]
    /\ UNCHANGED <<op, response, outcome, coll, tail, requests, served, up, calls, server, ch, cl, cmp, session_state>>

\* the page is used up: `if not page.has_more: break`, else `cursor = page.cursor`
IterAdvance ==
    /\ op = "iter" /\ it.pc = "yield" /\ it.idx = Len(it.page.items)
    /\ IF StopsAt(it.page)
       THEN it' = [it EXCEPT !.pc = "exhausted"]
       ELSE it' = [it EXCEPT !.pc = "list", !.cursor = NextCursor(it.page)]
    /\ UNCHANGED <<op, response, outcome, coll, tail, requests, served, yielded, up, calls, server, ch, cl, cmp, session_state>>

\* upload / upload_bytes / upload_to_album / upload_bytes_to_album is called and runs
\* to its first request: the path variants read the file (a missing file ends the
\* call there), then the content type and the unique filename are settled
UploadStart ==
    /\ Quiescent
    /\ \E variant \in Variants, kind \in Kinds, fn \in Filenames, ct \in ContentTypeArgs,
          src \in SourceArgs, cap \in BOOLEAN, uuid_hex \in Uuids, exists \in BOOLEAN :
        /\ FromPath(variant) => ct = PyNone
        /\ ~FromPath(variant) => exists
        /\ ~ToAlbum(variant) => cap
        /\ up' = [pc |-> IF exists THEN "presign" ELSE "raised",
                  variant |-> variant, kind |-> kind, source |-> src, captured |-> cap,
                  filename |-> fn, content_type_arg |-> ct,
                  content_type |-> ResolveContentType(ct, fn),
                  unique_filename |-> MakeUniqueFilename(uuid_hex, fn),
                  presign |-> PyNone, media |-> PyNone, result |-> PyNone,
                  earlier |-> PyNone]
        /\ outcome' = IF exists THEN NoOutcome
                      ELSE Raise(PlainError("FileNotFoundError", "read_bytes"))
    /\ op' = "upload"
    /\ response' = NoResponse
    /\ calls' = <<>>
    /\ server' = NoServer
    /\ PagerReset
    /\ UNCHANGED <<ch, cl, cmp, session_state>>

\* the caller's next upload, after one that got as far as its presign request: the
\* same call again, of the file of the same name; `earlier` keeps the file name the
\* first upload was given and the storage file name it asked a presigned URL for
UploadAgain ==
    /\ op = "upload" /\ up.pc \in {"returned", "raised"}
    /\ calls # <<>> /\ up.earlier = PyNone
    /\ \E fn \in {up.filename}, uuid_hex \in Uuids :
        up' = [up EXCEPT !.pc = "presign", !.filename = fn,
                         !.content_type = ResolveContentType(up.content_type_arg, fn),
                         !.unique_filename = MakeUniqueFilename(uuid_hex, fn),
                         !.presign = PyNone, !.media = PyNone, !.result = PyNone,
                         !.earlier = [filename |-> up.filename,
                                      unique_filename |-> up.unique_filename]]
    /\ outcome' = NoOutcome
    /\ response' = NoResponse
    /\ calls' = <<>>
    /\ server' = NoServer
    /\ UNCHANGED <<op, coll, tail, it, requests, served, yielded, ch, cl, cmp, session_state>>

\* a failed step that undoes what the steps before it left behind (mutant)
UploadRaisesRollback(got) ==
    /\ up' = [up EXCEPT !.pc = "raised"]
    /\ outcome' = got
    /\ server' = NoServer

\* the exception of a failed step leaves the pipeline as it is
UploadRaises(got) ==
    /\ up' = [up EXCEPT !.pc = "raised"]
    /\ outcome' = got
    /\ server' = server

\* presign = await self._get_presigned_upload(kind, unique_filename)
UploadPresign ==
    /\ op = "upload" /\ up.pc = "presign"
    /\ \E resp \in {OkResponse(PresignData(up.unique_filename))} \cup Failures :
        LET req == PresignRequest(up.kind, up.unique_filename)
            got == Post(resp)
        IN  /\ calls' = Append(calls, [req |-> req, resp |-> resp])
            /\ response' = resp
            /\ IF got.kind = "raise" THEN UploadRaises(got)
               ELSE /\ up' = [up EXCEPT !.pc = "put", !.presign = ValidatePresign(got.value)]
                    /\ server' = [server EXCEPT !.presigned = @ \cup {up.unique_filename}]
                    /\ outcome' = outcome
    /\ UNCHANGED <<op, coll, tail, it, requests, served, yielded, ch, cl, cmp, session_state>>

\* await self._http.put_file(presign.presigned_url, content, content_type)
UploadPut ==
    /\ op = "upload" /\ up.pc = "put"
    /\ \E resp \in PutResponses :
        LET req == PutRequest(up.presign.presigned_url, Content, up.content_type)
            got == PutFile(resp)
        IN  /\ calls' = Append(calls, [req |-> req, resp |-> resp])
            /\ IF got.kind = "raise" THEN UploadRaises(got)
               ELSE /\ up' = [up EXCEPT !.pc = "create"]
                    /\ server' = [server EXCEPT !.objects = @ \cup {req.url}]
                    /\ outcome' = outcome
    /\ UNCHANGED <<op, response, coll, tail, it, requests, served, yielded, ch, cl, cmp, session_state>>

\* media = await self.create(presign.file_url, kind=kind, source=source), then the
\* UploadResult; upload / upload_bytes return it here
UploadCreate ==
    /\ op = "upload" /\ up.pc = "create"
    /\ \E mid \in MediaIds, payload \in MediaPayloads(up.kind, up.presign.file_url) :
       \E resp \in {OkResponse(CreateData(mid, up.kind, payload))} \cup Failures :
        LET req == CreateRequest(up.presign.file_url, up.kind, up.source)
            got == Post(resp)
            media == ValidateMedia(got.value.d["media"])
            result == UploadResult(up.presign, media)
        IN  /\ calls' = Append(calls, [req |-> req, resp |-> resp])
            /\ response' = resp
            /\ IF got.kind = "raise" THEN UploadRaises(got)
               ELSE /\ server' = [server EXCEPT !.media = Append(@, got.value.d["media"])]
                    /\ IF Attaches(up.variant)
                       THEN /\ up' = [up EXCEPT !.pc = "attach", !.media = media,
                                                !.result = result]
                            /\ outcome' = outcome
                       ELSE /\ up' = [up EXCEPT !.pc = "returned", !.media = media,
                                                !.result = result]
                            /\ outcome' = Return(result)
    /\ UNCHANGED <<op, coll, tail, it, requests, served, yielded, ch, cl, cmp, session_state>>

\* entry = await self.add_to_album(character_id, result.media_id, captured=captured);
\* result.album_id = entry.album_id; return result
UploadAttach ==
    /\ op = "upload" /\ up.pc = "attach"
    /\ \E aid \in AlbumIds :
       \E resp \in {OkResponse(AddData(aid))} \cup Failures :
        LET req == AddToAlbumRequest(CharacterId, up.result.media_id, up.captured)
            got == Post(resp)
            result == WithAlbumId(up.result, ValidateEntry(got.value))
        IN  /\ calls' = Append(calls, [req |-> req, resp |-> resp])
            /\ response' = resp
            /\ IF got.kind = "raise" THEN UploadRaises(got)
               ELSE /\ server' = [server EXCEPT !.album =
                                    Append(@, [albumId |-> aid, characterId |-> CharacterId,
                                               mediaId |-> up.result.media_id])]
                    /\ up' = [up EXCEPT !.pc = "returned", !.result = result]
                    /\ outcome' = Return(result)
    /\ UNCHANGED <<op, coll, tail, it, requests, served, yielded, ch, cl, cmp, session_state>>

\* character.upsert_blueprint_state(character_id, blueprint): one post, then the
\* CharacterItem of the response
UpsertBlueprintState ==
    /\ Quiescent
    /\ \E blueprint \in ModelArgs \cup DictArgs :
       \E req \in {UpsertRequest(CharacterId, blueprint)} :
       \E resp \in {OkResponse(CharacterData(CharacterId,
                                             ServiceUpsert(StoredState, req.json.d)))}
                     \cup Failures :
       \E got \in {Post(resp)} :
        /\ ch' = [pc |-> "done", character_id |-> CharacterId, blueprint |-> blueprint,
                  request |-> req, after |-> BlueprintAfter(CharacterId, blueprint)]
        /\ response' = resp
        /\ outcome' = IF got.kind = "raise" THEN got
                      ELSE Return(ValidateCharacter(got.value.d["character"]))
    /\ op' = "upsert"
    /\ PagerReset /\ UploadReset
    /\ UNCHANGED <<cl, cmp, session_state>>

\* the frame of every action on the client's session
SessionFrame ==
    /\ response' = NoResponse
    /\ PagerReset /\ UploadReset
    /\ UNCHANGED <<ch, cmp, session_state>>

\* client.close(), once more
ClientClose ==
    /\ op \in {"idle", "close"}
    /\ cl.closes < MaxCloses
    /\ cl' = CloseSession(cl)
    /\ outcome' = Return(PyNone)
    /\ op' = "close"
    /\ SessionFrame

\* `with MiniAppClient(...) as client:` / `async with`: __enter__ returns self
ScopeEnter ==
    /\ Quiescent
    /\ cl' = [cl EXCEPT !.scope = "body"]
    /\ outcome' = NoOutcome
    /\ op' = "scope"
    /\ SessionFrame

\* the body of the block calls client.close() itself
ScopeBodyClose ==
    /\ op = "scope" /\ cl.scope = "body"
    /\ cl.closes < MaxCloses - 1
    /\ cl' = CloseSession(cl)
    /\ UNCHANGED <<op, outcome>>
    /\ SessionFrame

\* the body of the block ends: it runs off its end, or it raises
ScopeBodyEnds ==
    /\ op = "scope" /\ cl.scope = "body"
    /\ \E pending \in {PyNone} \cup BodyErrors :
        cl' = [cl EXCEPT !.scope = "exiting", !.pending = pending]
    /\ UNCHANGED <<op, outcome>>
    /\ SessionFrame

\* __exit__(*args): self.close(), then the `with` statement re-raises what the body
\* raised
ScopeExit ==
    /\ op = "scope" /\ cl.scope = "exiting"
    /\ cl' = [CloseSession(cl) EXCEPT !.scope = "exited"]
    /\ outcome' = ExitOutcome(cl.pending)
    /\ UNCHANGED op
    /\ SessionFrame

\* the blocking and the suspending assets resource, each given the same answers:
\* iter(page_size, type) consumed to its end, get_all(type), types() and the first
\* page as list(limit, cursor=None, type)
AssetsBothModes ==
    /\ Quiescent
    /\ \E script \in Scripts, ps \in PageSizes, ty \in TypeArgs, tresp \in TypesResponses :
        cmp' = [pc |-> "modes", script |-> script,
                sync |-> [iter |-> RunIter("assets", "sync", ps, ty, script, NewRun),
                          get_all |-> GetAll("sync", RunIter("assets", "sync", DefaultPageSize,
                                                             ty, script, NewRun)),
                          list |-> ListOutcome("assets", ScriptResponse("assets", script[1], 1)),
                          types |-> TypesOutcome(tresp)],
                aio  |-> [iter |-> RunIter("assets", "aio", ps, ty, script, NewRun),
                          get_all |-> GetAll("aio", RunIter("assets", "aio", DefaultPageSize,
                                                            ty, script, NewRun)),
                          list |-> ListOutcome("assets", ScriptResponse("assets", script[1], 1)),
                          types |-> TypesOutcome(tresp)]]
    /\ op' = "modes"
    /\ outcome' = NoOutcome
    /\ response' = NoResponse
    /\ PagerReset /\ UploadReset
    /\ UNCHANGED <<ch, cl, session_state>>

\* the asset pager and the album pager, each given the same answers: iter(page_size)
\* and iter_album(character_id, page_size) consumed to their ends, and
\* get_all_album_items(character_id)
BothPagers ==
    /\ Quiescent
    /\ \E script \in Scripts, ps \in PageSizes :
        cmp' = [pc |-> "pagers", script |-> script,
                assets |-> RunIter("assets", "aio", ps, PyNone, script, NewRun),
                album  |-> RunIter("album", "aio", ps, PyNone, script, NewRun),
                get_all_album_items |->
                    GetAll("aio", RunIter("album", "aio", DefaultPageSize, PyNone, script,
                                          NewRun))]
    /\ op' = "pagers"
    /\ outcome' = NoOutcome
    /\ response' = NoResponse
    /\ PagerReset /\ UploadReset
    /\ UNCHANGED <<ch, cl, session_state>>

\* assets.list(limit, cursor, type), answered with one payload
AssetsList ==
    /\ Quiescent
    /\ \E limit \in PageSizes, ty \in TypeArgs, n \in ItemCounts, shape \in NextShapes,
          total \in TotalShapes :
       \E resp \in {OkResponse(ListPayload(n, shape, total))} :
        /\ requests' = <<ListRequest("assets", limit, PyNone, ty)>>
        /\ response' = resp
        /\ outcome' = ListOutcome("assets", resp)
    /\ op' = "list"
    /\ coll' = <<>> /\ tail' = "flag" /\ it' = NoIter /\ served' = <<>> /\ yielded' = <<>>
    /\ UploadReset
    /\ UNCHANGED <<ch, cl, cmp, session_state>>

\* the demo calls init_client(base_url, api_key), for the first time or again
SessionInit ==
    /\ op \in {"idle", "session"}
    /\ session_state.inits < MaxInits
    /\ \E base_url \in BaseUrls, env \in EnvUrls :
        session_state' = InitClient(session_state, base_url, env)
    /\ op' = "session"
    /\ outcome' = NoOutcome
    /\ response' = NoResponse
    /\ PagerReset /\ UploadReset
    /\ UNCHANGED <<ch, cl, cmp>>

\* iter / iter_album is called twice on one resource: two generators, neither of
\* which has run
TwinStart ==
    /\ Quiescent
    /\ \E res \in Resources, ps1 \in PageSizes, ps2 \in PageSizes,
          c \in TwinCollections, t \in Tails :
        /\ cmp' = [pc |-> "twins", res |-> res, gens |-> <<NewGen(ps1), NewGen(ps2)>>]
        /\ coll' = c
        /\ tail' = t
    /\ op' = "twins"
    /\ outcome' = NoOutcome
    /\ response' = NoResponse
    /\ it' = NoIter /\ requests' = <<>> /\ served' = <<>> /\ yielded' = <<>>
    /\ UploadReset
    /\ UNCHANGED <<ch, cl, session_state>>

\* the consumer of one of the two generators asks it for its next item; a finished
\* generator is asked once more
TwinNext ==
    /\ op = "twins"
    /\ \E i \in 1..Len(cmp.gens) :
        /\ Finished(cmp.gens[i]) => cmp.gens[i].asks <= Len(cmp.gens[i].yielded) + 1
        /\ cmp' = [cmp EXCEPT !.gens[i] = GenNext(cmp.res, cmp.gens, i, coll, tail)]
    /\ UNCHANGED <<op, response, outcome, coll, tail, it, requests, served, yielded,
                   up, calls, server, ch, cl, session_state>>

IterStep == IterList \/ IterListFails \/ IterYield \/ IterAdvance

Next ==
    \/ HttpCall
    \/ IterStart
    \/ IterList
    \/ IterListFails
    \/ IterYield
    \/ IterAdvance
    \/ UploadStart
    \/ UploadAgain
    \/ UploadPresign
    \/ UploadPut
    \/ UploadCreate
    \/ UploadAttach
    \/ UpsertBlueprintState
    \/ ClientClose
    \/ ScopeEnter
    \/ ScopeBodyClose
    \/ ScopeBodyEnds
    \/ ScopeExit
    \/ AssetsBothModes
    \/ BothPagers
    \/ AssetsList
    \/ SessionInit
    \/ TwinStart
    \/ TwinNext

Spec == Init /\ [][Next]_vars

\* get_all / get_all_album_items drain the generator: its steps keep being taken
\* and a `with` block whose body has ended runs __exit__
LiveSpec ==
    /\ Spec
    /\ WF_vars(IterList \/ IterYield \/ IterAdvance)
    /\ WF_vars(ScopeExit)

(***************************************************************************)
(* Properties of the pager                                                 *)
(***************************************************************************)
RECURSIVE ServedItems(_)
\* the wire items of the pages served so far, in the order served
ServedItems(pages) ==
    IF pages = <<>> THEN <<>> ELSE pages[1].d["items"] \o ServedItems(Tail(pages))

\* the yielded object is the wire item, field for field
SameItem(obj, wire) ==
    IF "id" \in DOMAIN wire
    THEN /\ obj.cls = "CreationAsset" /\ obj.id = wire.id
         /\ obj.media.media_id = wire.media.d["mediaId"]
    ELSE /\ obj.cls = "AlbumItem" /\ obj.created_at = wire.createdAt
         /\ obj.media.media_id = wire.media.d["mediaId"]

\* hasMore of a served page, read off the wire
WireHasMore(data) ==
    /\ "next" \in DOMAIN data.d
    /\ IsDict(data.d["next"])
    /\ "hasMore" \in DOMAIN data.d["next"].d
    /\ data.d["next"].d["hasMore"].b
\* the cursor of a served page, read off the wire
WireCursor(data) == data.d["next"].d["cursor"]

\* C1: at every point of a traversal the items yielded so far are the first items of
\* the concatenation of the served pages, one for one and in the served order; when
\* the traversal is exhausted they are the whole concatenation (nothing dropped,
\* duplicated, re-ordered or de-duplicated).
C1_YieldsConcatenation ==
    op = "iter" =>
        LET all == ServedItems(served)
        IN  /\ Len(yielded) <= Len(all)
            /\ \A i \in 1..Len(yielded) : SameItem(yielded[i], all[i])
            /\ it.pc = "exhausted" => Len(yielded) = Len(all)

\* pages of sizes [2,2,1] with hasMore true, true, false have been yielded as 5 items,
\* two equal items among them
C1_Witness ==
    /\ op = "iter" /\ it.pc = "exhausted"
    /\ Len(served) = 3
    /\ Len(served[1].d["items"]) = 2 /\ Len(served[2].d["items"]) = 2
    /\ Len(served[3].d["items"]) = 1
    /\ WireHasMore(served[1]) /\ WireHasMore(served[2]) /\ ~WireHasMore(served[3])
    /\ Len(yielded) = 5
    /\ yielded[1] = yielded[2]

\* C2: the first list request of a traversal carries no cursor; every later one
\* carries the cursor of the page served just before it, which is not null; and the
\* generator about to fetch after at least one page holds a non-null cursor.
C2_CursorChain ==
    op = "iter" =>
        /\ \A k \in 1..Len(requests) :
            IF k = 1 THEN RequestCursor(requests[k]) = PyNone
            ELSE /\ RequestCursor(requests[k]) = WireCursor(served[k - 1])
                 /\ RequestCursor(requests[k]) # PyNone
        /\ (it.pc = "list" /\ Len(served) >= 1) => it.cursor # PyNone

\* a third request has been sent, with the second page's cursor
C2_Witness ==
    /\ op = "iter" /\ Len(requests) = 3 /\ Len(served) >= 2
    /\ RequestCursor(requests[3]) = WireCursor(served[2])
    /\ RequestCursor(requests[2]) # RequestCursor(requests[3])

\* C3: a traversal that is driven on ends after finitely many list requests: it
\* sends at most one request per item plus one, and it reaches exhausted unless a
\* list call raised.
C3_Terminates ==
    /\ [](op = "iter" => Len(requests) <= Len(coll) + 1)
    /\ (op = "iter") ~> (it.pc \in {"exhausted", "raised"})

\* a traversal over several pages has reached exhausted
C3_Witness ==
    op = "iter" /\ it.pc = "exhausted" /\ Len(requests) >= 3 /\ Len(yielded) = Len(coll)

\* C4: a list request is only ever sent after pages that all said hasMore = true;
\* an exhausted traversal has sent exactly as many requests as it consumed pages, its
\* last page said hasMore = false and that page's items have been yielded.
C4_ExhaustedTerminal ==
    op = "iter" =>
        /\ \A k \in 2..Len(requests) : WireHasMore(served[k - 1])
        /\ it.pc = "exhausted" =>
            /\ Len(requests) = Len(served)
            /\ ~WireHasMore(served[Len(served)])
            /\ Len(yielded) = Len(ServedItems(served))
            /\ ~ENABLED IterStep

\* an exhausted traversal of two pages whose last page carried items and a cursor
C4_Witness ==
    /\ op = "iter" /\ it.pc = "exhausted"
    /\ Len(requests) = 2 /\ Len(served) = 2
    /\ served[2].d["items"] # <<>>
    /\ tail = "stale"

(***************************************************************************)
(* Properties of the upload pipeline                                       *)
(***************************************************************************)
Pipeline == <<"presign", "put", "create", "addToAlbum">>
CallNames == [i \in 1..Len(calls) |-> calls[i].req.call]

\* the remote call was answered with success
CallSucceeded(call) ==
    /\ call.resp.net = "ok"
    /\ IF call.req.call = "put" THEN call.resp.status \in 200..299
       ELSE call.resp.body.d["success"] = PyBool(TRUE)

\* what the Transport raised for the call
TransportRaised(call) ==
    IF call.req.call = "put" THEN PutFile(call.resp) ELSE Post(call.resp)

\* C5: the remote calls of an upload are issued in the order presign, PUT, create,
\* addToAlbum, each once; the album variants return after all four with album_id the
\* albumId of the addToAlbum response, the others after three with album_id null.
C5_UploadOrder ==
    op = "upload" =>
        /\ CallNames = SubSeq(Pipeline, 1, Len(calls))
        /\ up.pc = "returned" =>
            /\ outcome.kind = "return"
            /\ IF ToAlbum(up.variant)
               THEN /\ CallNames = Pipeline
                    /\ outcome.value.album_id
                         = PyStr(calls[4].resp.body.d["data"].d["albumId"])
               ELSE /\ CallNames = SubSeq(Pipeline, 1, 3)
                    /\ outcome.value.album_id = PyNone

\* upload_bytes_to_album has returned the album id "al2" of a media asset "m1"
C5_Witness ==
    /\ op = "upload" /\ up.pc = "returned" /\ up.variant = "upload_bytes_to_album"
    /\ Len(calls) = 4
    /\ outcome.value.album_id = PyStr("al2")
    /\ outcome.value.media_id = "m1"

\* C6: when a step of the pipeline fails, the failing call is the last one issued
\* (no later step, no cleanup request), every call before it succeeded and what those
\* left at the service is still there, and the caller gets the Transport's exception
\* as raised, not an UploadResult.
C6_NoCompensation ==
    (op = "upload" /\ up.pc = "raised" /\ calls # <<>>) =>
        LET n == Len(calls)
        IN  /\ CallNames = SubSeq(Pipeline, 1, n)
            /\ \A i \in 1..(n - 1) : CallSucceeded(calls[i])
            /\ ~CallSucceeded(calls[n])
            /\ outcome.kind = "raise"
            /\ outcome = TransportRaised(calls[n])
            /\ server.presigned = (IF n >= 2 THEN {up.unique_filename} ELSE {})
            /\ server.objects = (IF n >= 3 THEN {<<"put", up.unique_filename>>} ELSE {})
            /\ Len(server.media) = (IF n >= 4 THEN 1 ELSE 0)
            /\ server.album = <<>>

\* addToAlbum failed after create: the media asset exists, attached to no album
C6_Witness ==
    /\ op = "upload" /\ up.pc = "raised" /\ Len(calls) = 4
    /\ Len(server.media) = 1 /\ server.album = <<>>
    /\ outcome.kind = "raise" /\ outcome.exc.cls = "MiniAppNotFoundError"

(***************************************************************************)
(* Properties of the Transport and the error classifier                    *)
(***************************************************************************)
\* the response is a JSON object
IsEnvelope == response.net = "ok" /\ IsDict(response.body)
\* success is present and is the boolean b
SuccessIs(b) ==
    /\ IsEnvelope
    /\ "success" \in DOMAIN response.body.d
    /\ response.body.d["success"] = PyBool(b)
\* the envelope carries an error object
HasErrorObject ==
    /\ IsEnvelope
    /\ "error" \in DOMAIN response.body.d
    /\ IsDict(response.body.d["error"])
ErrorField(key) == response.body.d["error"].d[key]
HasErrorField(key) == HasErrorObject /\ key \in DOMAIN response.body.d["error"].d

\* C7: a response {success: true, data: P} with P an object gives exactly P; with
\* success true and no data field it gives the empty object.
C7_EnvelopeRoundTrip ==
    (op = "post" /\ SuccessIs(TRUE)) =>
        IF "data" \in DOMAIN response.body.d
        THEN IsDict(response.body.d["data"]) => outcome = Return(response.body.d["data"])
        ELSE outcome = Return(EmptyDict)

\* a non-empty payload came back from a success envelope
C7_Witness ==
    /\ op = "post" /\ SuccessIs(TRUE)
    /\ "data" \in DOMAIN response.body.d
    /\ outcome = Return(PyDict([media |-> "m1"]))

\* the kind the classifier is to choose for a code, as the error taxonomy states it
ExpectedKind(code) ==
    LET n == Len(code)
    IN  IF n >= 7 /\ code[1] \in Letters
        THEN CASE <<code[n - 2], code[n - 1], code[n]>> = <<"4", "0", "1">> -> "MiniAppAuthError"
               [] <<code[n - 2], code[n - 1], code[n]>> = <<"4", "0", "3">> -> "MiniAppForbiddenError"
               [] <<code[n - 2], code[n - 1], code[n]>> = <<"4", "0", "4">> -> "MiniAppNotFoundError"
               [] <<code[n - 2], code[n - 1], code[n]>> = <<"4", "0", "9">> -> "MiniAppConflictError"
               [] <<code[n - 2], code[n - 1], code[n]>> = <<"4", "2", "2">> -> "MiniAppValidationError"
               [] OTHER -> "MiniAppAPIError"
        ELSE "MiniAppAPIError"

\* C8: a response with success = false is never answered with a value; when it
\* carries an error object with code and message, the exception is an API error of
\* the classifier's kind with exactly that code and that message.
C8_ErrorEnvelopeRaises ==
    (op = "post" /\ SuccessIs(FALSE)) =>
        /\ outcome.kind = "raise"
        /\ (HasErrorField("code") /\ HasErrorField("message")) =>
            /\ IsInstance(outcome.exc, "MiniAppAPIError")
            /\ outcome.exc.cls = ExpectedKind(ErrorField("code"))
            /\ outcome.exc.code = ErrorField("code")
            /\ outcome.exc.message = ErrorField("message")

\* code "A000404" with message "boom" and a data field raised NotFound
C8_Witness ==
    /\ op = "post" /\ SuccessIs(FALSE)
    /\ "data" \in DOMAIN response.body.d
    /\ outcome = Raise(APIError("MiniAppNotFoundError", NotFoundCode, "boom"))

\* C9: the kind of the exception is a function of the code alone: the table's kind
\* when the code has 7 or more characters, starts with a letter and ends in 401, 403,
\* 404, 409 or 422, and the generic kind for every other code.
C9_Classifier ==
    (op = "post" /\ IsEnvelope /\ ~Truthy(Get(response.body, "success", PyNone))
        /\ HasErrorField("code")) =>
        /\ outcome.kind = "raise"
        /\ outcome.exc.cls = ExpectedKind(ErrorField("code"))

\* "A000422" gave Validation
C9_Witness ==
    /\ op = "post" /\ HasErrorField("code")
    /\ ErrorField("code") = <<"A", "0", "0", "0", "4", "2", "2">>
    /\ outcome.kind = "raise" /\ outcome.exc.cls = "MiniAppValidationError"

\* the kind a failure to communicate is raised as (http.py: raise MiniAppError(...))
TransportErrorKind == "MiniAppError"
APIErrorKind == "MiniAppAPIError"
\* the exchange failed, or its body is no JSON
CommunicationFailed == response.net = "fail" \/ (response.net = "ok" /\ response.body.t = "notjson")

\* C10 as stated: the exception of a success = false envelope is never of the
\* transport-error kind, and the exception of a communication failure is never of
\* the API-error kind.
C10_Original ==
    op = "post" =>
        /\ (SuccessIs(FALSE) /\ HasErrorObject) => ~IsInstance(outcome.exc, TransportErrorKind)
        /\ CommunicationFailed => ~IsInstance(outcome.exc, APIErrorKind)

\* C10 as amended: a communication failure raises the transport-error kind and never
\* the API-error kind; a success = false envelope raises the API-error kind, which is
\* itself a subtype of the transport-error kind.
C10_Families ==
    op = "post" =>
        /\ CommunicationFailed =>
            /\ outcome.kind = "raise"
            /\ IsInstance(outcome.exc, TransportErrorKind)
            /\ ~IsInstance(outcome.exc, APIErrorKind)
        /\ (SuccessIs(FALSE) /\ HasErrorObject) =>
            /\ outcome.kind = "raise"
            /\ IsInstance(outcome.exc, APIErrorKind)
            /\ IsInstance(outcome.exc, TransportErrorKind)

\* an error envelope raised NotFound, which a handler of the transport-error kind catches
C10_Witness ==
    /\ op = "post" /\ SuccessIs(FALSE) /\ HasErrorObject
    /\ outcome.kind = "raise" /\ outcome.exc.cls = "MiniAppNotFoundError"
    /\ IsInstance(outcome.exc, TransportErrorKind)

\* the body is JSON but no object with a boolean success field
MalformedBody ==
    /\ response.net = "ok"
    /\ \/ response.body.t = "notjson"
       \/ ~IsDict(response.body)
       \/ "success" \notin DOMAIN response.body.d
       \/ response.body.d["success"].t # "bool"

\* C11: a get/post that raises raises one of the two families and nothing else: a
\* failed exchange or a malformed body (no JSON, or JSON that is no object with a
\* boolean success) gives the transport-error kind and not an API error; an envelope
\* with success = false gives an API-error kind.
C11_TwoFamilies ==
    (op = "post" /\ outcome.kind = "raise") =>
        /\ IsInstance(outcome.exc, TransportErrorKind)
        /\ (response.net = "fail" \/ MalformedBody) => ~IsInstance(outcome.exc, APIErrorKind)
        /\ SuccessIs(FALSE) => IsInstance(outcome.exc, APIErrorKind)

\* the PUT was answered, with a 2xx status
PutAnswered2xx(call) == call.resp.net = "ok" /\ call.resp.status \in 200..299

\* C12: the storage PUT goes out with the Content-Type header alone, without the
\* session's Authorization header; it succeeds exactly when it is answered with a 2xx
\* status, whatever the body says, and every other answer and a failed exchange
\* raise the transport-error kind.
C12_PutRaw ==
    op = "upload" =>
        \A i \in 1..Len(calls) :
            calls[i].req.call = "put" =>
                /\ DOMAIN SentHeaders(calls[i].req) = {"ContentType"}
                /\ "Authorization" \notin DOMAIN SentHeaders(calls[i].req)
                /\ IF PutAnswered2xx(calls[i])
                   THEN ~(i = Len(calls) /\ up.pc = "raised")
                   ELSE /\ i = Len(calls) /\ up.pc = "raised"
                        /\ outcome.kind = "raise"
                        /\ outcome.exc.cls = TransportErrorKind

\* the presign call went out with the Authorization header, the PUT without it; the
\* store answered 204 with a body that reads as a failed envelope, and create followed
C12_Witness ==
    /\ op = "upload" /\ Len(calls) = 3
    /\ "Authorization" \in DOMAIN SentHeaders(calls[1].req)
    /\ calls[2].req.call = "put"
    /\ "Authorization" \notin DOMAIN SentHeaders(calls[2].req)
    /\ calls[2].resp.status = 204 /\ calls[2].resp.body # ""
    /\ calls[3].req.call = "create"

(***************************************************************************)
(* Properties of the character resource                                    *)
(***************************************************************************)
\* the section keys the caller provided: the fields set on a CharacterBlueprintState
\* (by alias), the keys of a dict
Provided(blueprint) ==
    IF blueprint.t = "model" THEN {StateFields[f] : f \in blueprint.fields_set}
    ELSE DOMAIN blueprint.d
\* what the caller provided under a key
ProvidedValue(blueprint, key) ==
    IF blueprint.t = "model" THEN blueprint.values[FieldOf(key)] ELSE blueprint.d[key]

\* C13: the body of the upsert request has exactly the keys the caller provided plus
\* characterId, for a CharacterBlueprintState and for a dict.
C13_ExactKeys ==
    op = "upsert" =>
        DOMAIN ch.request.json.d = Provided(ch.blueprint) \cup {"characterId"}

\* C14: a section the caller set to None is in the body of the upsert request, with
\* the value null, for a CharacterBlueprintState and for a dict.
C14_NullSerialized ==
    op = "upsert" =>
        \A k \in Provided(ch.blueprint) \ {"characterId"} :
            ProvidedValue(ch.blueprint, k) = PyNone =>
                /\ k \in DOMAIN ch.request.json.d
                /\ ch.request.json.d[k] = PyNone

(***************************************************************************)
(* Properties of the client's lifecycle                                    *)
(***************************************************************************)
\* C15: however many times close has been called, the client is closed, its
\* connection has been released exactly once (by the first call) and the call
\* returned without raising.
C15_CloseIdempotent ==
    op = "close" =>
        /\ cl.closes >= 1
        /\ cl.http = "closed"
        /\ cl.released = 1
        /\ outcome = Return(PyNone)

\* close has been called three times
C15_Witness == op = "close" /\ cl.closes = 3 /\ cl.http = "closed" /\ cl.released = 1

\* C16: a `with` block that has been left has closed the session, whether its body
\* returned or raised, and an exception of the body is what the caller gets; and a
\* block whose body has ended is always left, with the session closed.
C16_ScopedRelease ==
    /\ []((op = "scope" /\ cl.scope = "exited") =>
            /\ cl.http = "closed"
            /\ cl.released = 1
            /\ outcome = (IF cl.pending = PyNone THEN Return(PyNone) ELSE Raise(cl.pending)))
    /\ (op = "scope" /\ cl.scope = "exiting") ~> (cl.scope = "exited" /\ cl.http = "closed")

\* the body raised NotFound; the block was left closed and the caller got NotFound
C16_Witness ==
    /\ op = "scope" /\ cl.scope = "exited" /\ cl.http = "closed"
    /\ cl.pending # PyNone
    /\ outcome.kind = "raise" /\ outcome.exc.cls = "MiniAppNotFoundError"

(***************************************************************************)
(* Properties of the media models                                          *)
(***************************************************************************)
\* the payload variant of each kind, and the attribute that holds its file's URL
VariantOfKind == [image |-> "ImagePayload", video |-> "VideoPayload", audio |-> "AudioPayload"]
UrlOfVariant == [ImagePayload |-> "image_url", VideoPayload |-> "video_url",
                 AudioPayload |-> "audio_url"]

\* the payload of the media asset is of the variant of its kind
KindMatches(media) ==
    /\ media.cls = "MediaAsset"
    /\ media.payload.cls = VariantOfKind[media.kind]
    /\ UrlOfVariant[media.payload.cls] \in DOMAIN media.payload

\* C17: every MediaAsset the client has handed out has the payload variant of its
\* kind: the asset of create and of the UploadResult, and the media of every item
\* of a page or of a traversal, a video with a thumbnail imageUrl included.
C17_PayloadMatchesKind ==
    /\ (op = "upload" /\ up.media # PyNone) => KindMatches(up.media)
    /\ (op = "upload" /\ outcome.kind = "return") => KindMatches(outcome.value.media)
    /\ op = "iter" =>
        /\ \A i \in 1..Len(yielded) : KindMatches(yielded[i].media)
        /\ \A i \in 1..Len(it.page.items) : KindMatches(it.page.items[i].media)

\* an upload of a video returned an asset whose video payload carries a thumbnail
C17_Witness ==
    /\ op = "upload" /\ outcome.kind = "return"
    /\ outcome.value.media.kind = "video"
    /\ outcome.value.media.payload.cls = "VideoPayload"
    /\ outcome.value.media.payload.image_url # PyNone

(***************************************************************************)
(* Properties of the storage file name                                     *)
(***************************************************************************)
HexDigits == {"0", "1", "2", "3", "4", "5", "6", "7", "8", "9", "a", "b", "c", "d", "e", "f"}

\* the file name of the presign request of the upload under way
PresignFilename == calls[1].req.json.d["filename"]

\* this is the second upload, of a file named as the first one's, and its presign
\* request is out
SecondOfSameName ==
    /\ op = "upload" /\ calls # <<>>
    /\ up.earlier # PyNone
    /\ up.earlier.filename = up.filename

\* the storage file name is 12 hex digits, "_", then the file name as given
TokenThenName(storage, filename) ==
    /\ Len(storage) = 12 + 1 + Len(filename)
    /\ \A i \in 1..12 : storage[i] \in HexDigits
    /\ storage[13] = "_"
    /\ EndsWith(storage, filename)

PageFlags(run) == [k \in 1..Len(run.pages) |-> <<run.pages[k].has_more, run.pages[k].cursor>>]
\* the cursors a run passed
CursorsPassed(run) == [k \in 1..Len(run.requests) |-> RequestCursor(run.requests[k])]
\* how a run ended: exhausted, still going, or the class of the exception
HowEnded(run) == IF run.outcome.kind = "raise" THEN run.outcome.exc.cls ELSE run.outcome.kind

\* C20: given the same answers (same item counts, same `next`, absent and null
\* included), the asset pager and the album pager send the same number of requests,
\* pass the same cursors, get pages with the same flags and end the same way.
C20_SameContract ==
    cmp.pc = "pagers" =>
        /\ Len(cmp.assets.requests) = Len(cmp.album.requests)
        /\ CursorsPassed(cmp.assets) = CursorsPassed(cmp.album)
        /\ PageFlags(cmp.assets) = PageFlags(cmp.album)
        /\ Len(cmp.assets.yielded) = Len(cmp.album.yielded)
        /\ HowEnded(cmp.assets) = HowEnded(cmp.album)

(***************************************************************************)
(* Properties of traversals of one resource                                *)
(***************************************************************************)
RECURSIVE Alone(_, _, _, _, _)
\* the generator of a traversal made on its own, after k calls of next()
Alone(res, page_size, c, t, k) ==
    IF k = 0 THEN NewGen(page_size)
    ELSE GenNext(res, <<Alone(res, page_size, c, t, k - 1)>>, 1, c, t)

\* C21: each of two traversals of one resource sends its first request without a
\* cursor and is, after each next(), exactly what a traversal made on its own is
\* after as many next() calls, whatever the other one has done; an exhausted one has
\* yielded the whole collection and a further next() changes nothing of it.
C21_IndependentTraversals ==
    op = "twins" =>
        \A i \in 1..Len(cmp.gens) :
            LET g == cmp.gens[i]
            IN  /\ g = Alone(cmp.res, g.page_size, coll, tail, g.asks)
                /\ g.requests # <<>> => RequestCursor(g.requests[1]) = PyNone
                /\ g.pc = "exhausted" => Len(g.yielded) = Len(coll)
                /\ (Finished(g) /\ g.asks > Len(g.yielded) + 1) =>
                    [g EXCEPT !.asks = @ - 1]
                        = Alone(cmp.res, g.page_size, coll, tail, g.asks - 1)

\* the first traversal is exhausted after three items and was asked again; the
\* second, of another page size, started after that and has yielded one item
C21_Witness ==
    /\ op = "twins"
    /\ cmp.gens[1].pc = "exhausted" /\ Len(cmp.gens[1].yielded) = 3
    /\ cmp.gens[1].asks = 5 /\ cmp.gens[1].cursor # PyNone
    /\ cmp.gens[2].pc = "yield" /\ Len(cmp.gens[2].yielded) = 1
    /\ cmp.gens[2].page_size # cmp.gens[1].page_size
    /\ RequestCursor(cmp.gens[2].requests[1]) = PyNone

(***************************************************************************)
(* Properties of failing requests                                          *)
(***************************************************************************)
\* the answers of a script before its last one carried this many items
ItemsBeforeLast(script) ==
    LET n[k \in 0..(Len(script) - 1)] == IF k = 0 THEN 0 ELSE n[k - 1] + script[k].n
    IN  n[Len(script) - 1]

\* the run met a failed exchange as the last answer of its script: one request per
\* answer, the items of the pages before it yielded, the Transport's exception out
FailedAtLast(run, script) ==
    /\ Len(run.requests) = Len(script)
    /\ Len(run.pages) = Len(script) - 1
    /\ Len(run.yielded) = ItemsBeforeLast(script)
    /\ run.outcome = Post(script[Len(script)])

\* C22: no request is sent twice.  A traversal sends pairwise distinct list requests;
\* when the exchange for page k+1 fails, k pages were served and all their items
\* yielded, the failed request was sent once and nothing follows it, and the
\* consumer gets the Transport's exception; get_all and get_all_album_items raise
\* that exception instead of returning the items gathered so far.  An upload sends
\* pairwise distinct requests.
C22_NoRetry ==
    /\ op = "iter" =>
        /\ \A i, j \in 1..Len(requests) : i # j => requests[i] # requests[j]
        /\ Len(requests) <= Len(served) + 1
        /\ (it.pc = "raised" /\ response \in Failures) =>
            /\ Len(requests) = Len(served) + 1
            /\ Len(yielded) = Len(ServedItems(served))
            /\ outcome.kind = "raise" /\ outcome = Post(response)
            /\ ~ENABLED IterStep
    /\ (cmp.pc \in {"modes", "pagers"} /\ cmp.script[Len(cmp.script)] \in Failures) =>
        LET failed == Post(cmp.script[Len(cmp.script)])
        IN  /\ failed.kind = "raise"
            /\ cmp.pc = "modes" =>
                /\ FailedAtLast(cmp.sync.iter, cmp.script)
                /\ FailedAtLast(cmp.aio.iter, cmp.script)
                /\ cmp.sync.get_all = failed /\ cmp.aio.get_all = failed
            /\ cmp.pc = "pagers" =>
                /\ FailedAtLast(cmp.album, cmp.script)
                /\ cmp.get_all_album_items = failed
    /\ op = "upload" =>
        \A i, j \in 1..Len(calls) : i # j => calls[i].req # calls[j].req

\* the exchange for the third page failed after two pages of two items were yielded
C22_Witness ==
    /\ op = "iter" /\ it.pc = "raised" /\ response \in Failures
    /\ Len(requests) = 3 /\ Len(served) = 2 /\ Len(yielded) = 4
    /\ outcome.kind = "raise"

(***************************************************************************)
(* Properties of what a consumer causes                                    *)
(***************************************************************************)
\* the number of pages of page_size items that hold the first j items
PagesHolding(j, page_size) == (j + page_size - 1) \div page_size

\* C23: a generator sends nothing before its first next(); the request for a page
\* is sent only once every item of the pages before it has been yielded; and a
\* generator suspended after its j-th item has sent exactly the requests for the
\* pages that hold items 1..j, the last of them for the page item j is in.
C23_Lazy ==
    /\ op = "iter" =>
        /\ \A k \in 2..Len(requests) :
            Len(yielded) >= Len(ServedItems(SubSeq(served, 1, k - 1)))
        /\ (it.pc = "yield" /\ it.idx >= 1) =>
            /\ Len(requests) = Len(served)
            /\ Len(yielded) > Len(ServedItems(SubSeq(served, 1, Len(served) - 1)))
            /\ Len(yielded) <= Len(ServedItems(served))
    /\ op = "twins" =>
        \A i \in 1..Len(cmp.gens) :
            LET g == cmp.gens[i]
            IN  /\ g.asks = 0 => g.requests = <<>>
                /\ g.pc = "yield" =>
                    /\ Len(g.yielded) = g.asks
                    /\ Len(g.requests) = PagesHolding(g.asks, g.page_size)

\* a consumer stopped after the second of three items, the last of the first page:
\* one request was sent, while the other generator went through the collection
C23_Witness ==
    /\ op = "twins" /\ Len(coll) = 3
    /\ cmp.gens[1].pc = "yield" /\ cmp.gens[1].page_size = 2
    /\ cmp.gens[1].asks = 2 /\ Len(cmp.gens[1].requests) = 1
    /\ cmp.gens[1].page.has_more
    /\ cmp.gens[2].pc = "exhausted"

(***************************************************************************)
(* Properties of what the upload passes on                                 *)
(***************************************************************************)
\* the payload of the answer to the k-th call of the pipeline
CallData(k) == calls[k].resp.body.d["data"]

\* C24: the bytes are PUT to the presignedUrl of the presign answer, which is not
\* its fileUrl; create is called with that answer's fileUrl; the UploadResult has
\* that fileUrl as url, the MediaAsset of the create answer as media and its id as
\* media_id; addToAlbum is called with that media id.
C24_UploadPassesOn ==
    op = "upload" =>
        /\ Len(calls) >= 2 =>
            /\ calls[2].req.url = CallData(1).d["presignedUrl"]
            /\ calls[2].req.url # CallData(1).d["fileUrl"]
        /\ Len(calls) >= 3 => calls[3].req.json.d["url"] = CallData(1).d["fileUrl"]
        /\ Len(calls) >= 4 =>
            calls[4].req.json.d["mediaId"] = CallData(3).d["media"].d["mediaId"]
        /\ up.pc = "returned" =>
            /\ outcome.value.url = CallData(1).d["fileUrl"]
            /\ outcome.value.media = ValidateMedia(CallData(3).d["media"])
            /\ outcome.value.media_id = CallData(3).d["media"].d["mediaId"]

\* upload_to_album returned the file URL of its storage name and the video asset
\* "m2" that it attached to the album
C24_Witness ==
    /\ op = "upload" /\ up.pc = "returned" /\ up.variant = "upload_to_album"
    /\ Len(calls) = 4
    /\ outcome.value.url = <<"cdn", up.unique_filename>>
    /\ calls[2].req.url = <<"put", up.unique_filename>>
    /\ outcome.value.media_id = "m2" /\ outcome.value.media.kind = "video"
    /\ calls[4].req.json.d["mediaId"] = "m2"

\* the Content-Type header of the PUT
PutContentType == calls[2].req.headers.ContentType

\* C25 as stated: the content type of the PUT is the caller's content_type when one
\* is given, else the type guessed from the file name as given (without the random
\* prefix), else "application/octet-stream"; it is never empty.
C25_Original ==
    (op = "upload" /\ Len(calls) >= 2) =>
        /\ PutContentType # PyStr("")
        /\ PutContentType =
            (IF up.content_type_arg # PyNone THEN up.content_type_arg
             ELSE IF GuessType(up.filename) # PyNone THEN GuessType(up.filename)
             ELSE PyStr("application/octet-stream"))

\* C25 as amended: the content type of the PUT is the caller's content_type whenever
\* it is not None, the empty string included; else the type guessed from the file
\* name as given; else "application/octet-stream".  It is empty only when the caller
\* passed the empty string.
C25_ContentTypeResolved ==
    (op = "upload" /\ Len(calls) >= 2) =>
        /\ up.content_type_arg # PyNone => PutContentType = up.content_type_arg
        /\ (up.content_type_arg = PyNone /\ GuessType(up.filename) # PyNone) =>
            PutContentType = GuessType(up.filename)
        /\ (up.content_type_arg = PyNone /\ GuessType(up.filename) = PyNone) =>
            PutContentType = PyStr("application/octet-stream")
        /\ (PutContentType = PyStr("")) <=> (up.content_type_arg = PyStr(""))

\* "a.png" was PUT as image/jpeg, the type the caller gave, under its storage name
C25_Witness ==
    /\ op = "upload" /\ Len(calls) >= 2
    /\ up.filename = <<"a", ".", "p", "n", "g">>
    /\ up.content_type_arg = PyStr("image/jpeg")
    /\ PutContentType = PyStr("image/jpeg")
    /\ calls[2].req.url = <<"put", up.unique_filename>>

(***************************************************************************)
(* Properties of the pages list and list_album return                      *)
(***************************************************************************)
\* the page carries a cursor only together with has_more
CursorOnlyWithMore(page) == page.cursor # PyNone => page.has_more

\* C26: every page list / list_album returns has a cursor only when it says
\* has_more, whatever payload the service answered with.
C26_CursorOnlyWithMore ==
    /\ (op = "iter" /\ it.pc \in {"yield", "exhausted"}) => CursorOnlyWithMore(it.page)
    /\ cmp.pc = "pagers" =>
        /\ \A k \in 1..Len(cmp.assets.pages) : CursorOnlyWithMore(cmp.assets.pages[k])
        /\ \A k \in 1..Len(cmp.album.pages) : CursorOnlyWithMore(cmp.album.pages[k])

\* C27: the total of every page AssetsResource.list returns is the number of items
\* of the page, also when the payload has no total.
C27_TotalIsCount ==
    /\ (op = "list" /\ outcome.kind = "return") =>
        outcome.value.total = Len(outcome.value.items)
    /\ (op = "iter" /\ it.pc \in {"yield", "exhausted"} /\ it.res = "assets") =>
        it.page.total = Len(it.page.items)

C29_BodyAlone ==
    (op = "post" /\ response.net = "ok") =>
        /\ \A st \in Statuses : Post([response EXCEPT !.status = st]) = outcome
        /\ (IsDict(response.body) /\ "success" \notin DOMAIN response.body.d) =>
            outcome = Post([response EXCEPT
                              !.body = PyDict(("success" :> PyBool(FALSE)) @@ response.body.d)])
        /\ (/\ IsDict(response.body)
            /\ ~Truthy(Get(response.body, "success", PyNone))
            /\ "error" \notin DOMAIN response.body.d) =>
            outcome = Raise(APIError("MiniAppAPIError", UnknownCode, "Unknown error"))

\* a body with a payload and no success field came with status 500: the generic
\* error with code "UNKNOWN" went out, as it does under status 200
C29_Witness ==
    /\ op = "post" /\ response.net = "ok" /\ response.status = 500
    /\ IsDict(response.body)
    /\ DOMAIN response.body.d = {"data"}
    /\ outcome = Raise(APIError("MiniAppAPIError", UnknownCode, "Unknown error"))
    /\ outcome = Post([response EXCEPT !.status = 200])

(***************************************************************************)
(* Properties of the demo's session wrapper                                *)
(***************************************************************************)
\* the clients init_client has made that are open
OpenClients == {i \in 1..Len(session_state.made) : session_state.made[i] = "open"}

\* C30: after any sequence of init_client calls, when is_connected() is true the
\* client of the session is open, and at most one client made by init_client is
\* open.
C30_ConnectedIsOpen ==
    /\ IsConnected(session_state) => session_state.client \in OpenClients
    /\ Cardinality(OpenClients) <= 1

====
